---- MODULE Spec2Model ----
(***************************************************************************)
(* Model of dice_probability_modeler.py: the hypergeometric pmf/cdf, the   *)
(* threshold locator validate_distro and the combination search find_dice. *)
(* The three pure functions are operators applied by one call action each; *)
(* find_dice is a step-by-step state machine over its loops.               *)
(*                                                                         *)
(* Python values are tagged records, so that int 0, None, a bare float, a  *)
(* tuple and a raised exception stay distinct.  A float is an IEEE-754     *)
(* double: an exponent and a 53-bit significand, produced by correctly     *)
(* rounded (nearest, ties to even) division and addition, so that sums of  *)
(* probabilities round as they do in the interpreter.  Only non-negative   *)
(* normal doubles and zero occur.  validate_distro's target_cases is an    *)
(* exact integer quotient far below 2^53 and is kept as an integer.        *)
(***************************************************************************)
EXTENDS Integers, Sequences, FiniteSets, TLC

VARIABLES fn, args, result, pc, N, solutions, it, dice, threshold

vars == <<fn, args, result, pc, N, solutions, it, dice, threshold>>

(* ---------------------------- bounds ----------------------------------- *)
MaxPop == 4
MaxFace == 3
MaxDice == 3
MaxNum == 2
MaxDen == 4
MaxSetLen == 2
MaxLimit == 3

(* ------------------------- Python values ------------------------------- *)
PyInt(i) == [type |-> "int", val |-> i]

PyNone == [type |-> "NoneType"]

Raise(e) == [type |-> "raise", exc |-> e]

RECURSIVE gcd(_, _)
gcd(a, b) == IF b = 0 THEN a ELSE gcd(b, a % b)

(* A double: zero has no significand bits; otherwise man is 53 bits, most  *)
(* significant first, man[1] = 1, and the value is                         *)
(* sum of man[i] * 2^(exp - i + 1).                                        *)
MantissaBits == 53

FloatZero == [type |-> "float", exp |-> 0, man |-> <<>>]

Float(e, m) == [type |-> "float", exp |-> e, man |-> m]

RECURSIVE Pow2(_)
Pow2(k) == IF k <= 0 THEN 1 ELSE 2 * Pow2(k - 1)

(* Round to nearest, ties to even: bits is a bit string with bits[1] = 1   *)
(* whose value is sum of bits[i] * 2^(e - i + 1); the bit after the        *)
(* significand is the guard bit and every later bit is sticky.             *)
RoundBits(bits, e) ==
    LET m == SubSeq(bits \o [i \in 1..MantissaBits |-> 0], 1, MantissaBits)
        guard == Len(bits) > MantissaBits /\ bits[MantissaBits + 1] = 1
        sticky == \E i \in (MantissaBits + 2)..Len(bits) : bits[i] = 1
        up == guard /\ (sticky \/ m[MantissaBits] = 1)
    IN IF ~up THEN Float(e, m)
       ELSE IF \A i \in 1..MantissaBits : m[i] = 1
       THEN Float(e + 1, <<1>> \o [i \in 1..(MantissaBits - 1) |-> 0])
       ELSE LET z == CHOOSE q \in 1..MantissaBits :
                         m[q] = 0 /\ \A j \in (q + 1)..MantissaBits : m[j] = 1
            IN Float(e, SubSeq(m, 1, z - 1) \o <<1>>
                          \o [i \in 1..(MantissaBits - z) |-> 0])

(* the value of the bits lo..hi of a bit string, as an integer             *)
RECURSIVE BitsValue(_, _, _)
BitsValue(m, lo, hi) ==
    IF lo > hi THEN 0 ELSE 2 * BitsValue(m, lo, hi - 1) + m[hi]

(* the w-bit string of 0 <= v < 2^w, most significant bit first            *)
ToBits(v, w) == [i \in 1..w |-> (v \div Pow2(w - i)) % 2]

(* long division, four bits at a step: the next k quotient bits of r / d   *)
(* (0 <= r < d), followed by one bit that tells whether a remainder is     *)
(* left                                                                    *)
RECURSIVE DivBits(_, _, _)
DivBits(r, d, k) ==
    IF k = 0 THEN <<IF r # 0 THEN 1 ELSE 0>>
    ELSE LET w == IF k < 4 THEN k ELSE 4
         IN ToBits((r * Pow2(w)) \div d, w) \o DivBits((r * Pow2(w)) % d, d, k - w)

(* the k >= 0 with d * 2^k <= n < d * 2^(k + 1), for n >= d                *)
RECURSIVE ShiftDown(_, _)
ShiftDown(n, d) == IF n >= 2 * d THEN 1 + ShiftDown(n, 2 * d) ELSE 0

(* the least k >= 0 with n * 2^k >= d, for n >= 1                          *)
RECURSIVE ShiftUp(_, _)
ShiftUp(n, d) == IF n < d THEN 1 + ShiftUp(2 * n, d) ELSE 0

(* n / d for ints n >= 0, d >= 1: true division, correctly rounded         *)
PyFloat(n, d) ==
    IF n = 0 THEN FloatZero
    ELSE LET down == ShiftDown(n, d)
             up == ShiftUp(n, d)
             n0 == n * Pow2(up)
             d0 == d * Pow2(down)
         IN RoundBits(<<1>> \o DivBits(n0 - d0, d0, MantissaBits), down - up)

(* binary addition of equally long bit strings a and b, four bits at a     *)
(* step from position hi down to 1 with carry c in; the carry out is the   *)
(* first bit of the result                                                 *)
RECURSIVE AddBits(_, _, _, _)
AddBits(a, b, hi, c) ==
    IF hi = 0 THEN <<c>>
    ELSE LET lo == IF hi < 4 THEN 1 ELSE hi - 3
             w == hi - lo + 1
             s == BitsValue(a, lo, hi) + BitsValue(b, lo, hi) + c
         IN IF s >= Pow2(w) THEN AddBits(a, b, lo - 1, 1) \o ToBits(s - Pow2(w), w)
            ELSE AddBits(a, b, lo - 1, 0) \o ToBits(s, w)

(* x + y of two doubles: the exact sum of the aligned significands,        *)
(* rounded once                                                            *)
FloatAdd(x, y) ==
    IF x.man = <<>> THEN y
    ELSE IF y.man = <<>> THEN x
    ELSE LET e == IF x.exp >= y.exp THEN x.exp ELSE y.exp
             len == MantissaBits + (IF x.exp >= y.exp THEN x.exp - y.exp
                                    ELSE y.exp - x.exp)
             aligned(v) == [i \in 1..(e - v.exp) |-> 0] \o v.man
                             \o [i \in 1..(len - MantissaBits - (e - v.exp)) |-> 0]
             total == AddBits(aligned(x), aligned(y), len, 0)
         IN IF total[1] = 1 THEN RoundBits(total, e + 1)
            ELSE RoundBits(Tail(total), e)

(* float(v) of an int or float operand; int + float adds as floats         *)
ToFloat(v) == IF v.type = "int" THEN PyFloat(v.val, 1) ELSE v

PyAdd(x, y) == FloatAdd(ToFloat(x), ToFloat(y))

Truthy(v) == v.type = "int" /\ v.val # 0

Min(a, b) == IF a <= b THEN a ELSE b

RECURSIVE factorial(_)
factorial(n) == IF n <= 0 THEN 1 ELSE n * factorial(n - 1)

comb(n, k) == IF k > n THEN 0 ELSE factorial(n) \div (factorial(k) * factorial(n - k))

range(a, b) == [i \in 1..(b - a) |-> a + i - 1]

(* ----------------------- hypergeometric_pmf ---------------------------- *)
(* variant: the out-of-range-target test placed before the parameter test  *)
pmf_target_first(total_population, total_successes, draws, target_successes) ==
    IF (target_successes > draws) \/ (target_successes > total_successes)
          \/ (target_successes < 0)
    THEN PyFloat(0, 1)
    ELSE IF (total_successes > total_population) \/ (draws > total_population)
          \/ (total_population < 1)
    THEN Raise("ValueError")
    ELSE LET term_1 == comb(total_successes, target_successes)
             term_2 == comb(total_population - total_successes, draws - target_successes)
             term_3 == comb(total_population, draws)
             fraction_gcd == gcd(term_1 * term_2, term_3)
         IN [type |-> "tuple",
             p_value |-> PyFloat(term_1 * term_2, term_3),
             numerator |-> (term_1 * term_2) \div fraction_gcd,
             denominator |-> term_3 \div fraction_gcd]

hypergeometric_pmf(total_population, total_successes, draws, target_successes) ==
    IF (total_successes > total_population) \/ (draws > total_population)
          \/ (total_population < 1)
    THEN Raise("ValueError")
    ELSE IF (target_successes > draws) \/ (target_successes > total_successes)
          \/ (target_successes < 0)
    THEN PyFloat(0, 1)
    ELSE LET term_1 == comb(total_successes, target_successes)
             term_2 == comb(total_population - total_successes, draws - target_successes)
             term_3 == comb(total_population, draws)
             fraction_gcd == gcd(term_1 * term_2, term_3)
         IN [type |-> "tuple",
             p_value |-> PyFloat(term_1 * term_2, term_3),
             numerator |-> (term_1 * term_2) \div fraction_gcd,
             denominator |-> term_3 \div fraction_gcd]

(* ----------------------- hypergeometric_cdf ---------------------------- *)
Inequalities == {"eq", "lte", "lt", "gte", "gt", "neq"}

(* variant: "gt" starting at target_successes instead of one above it      *)
k_values_gt_from_target(inequality, target_successes, max_successes) ==
    CASE inequality = "eq" -> <<target_successes>>
      [] inequality = "lte" -> range(0, target_successes + 1)
      [] inequality = "lt" -> range(0, target_successes)
      [] inequality = "gte" -> range(target_successes, max_successes + 1)
      [] inequality = "gt" -> range(target_successes, max_successes + 1)
      [] inequality = "neq" -> range(0, target_successes)
                                 \o range(target_successes + 1, max_successes + 1)
      [] OTHER -> <<>>

k_values(inequality, target_successes, max_successes) ==
    CASE inequality = "eq" -> <<target_successes>>
      [] inequality = "lte" -> range(0, target_successes + 1)
      [] inequality = "lt" -> range(0, target_successes)
      [] inequality = "gte" -> range(target_successes, max_successes + 1)
      [] inequality = "gt" -> range(target_successes + 1, max_successes + 1)
      [] inequality = "neq" -> range(0, target_successes)
                                 \o range(target_successes + 1, max_successes + 1)
      [] OTHER -> <<>>

(* The list comprehension pmf(...)[0] for k in k_values, then sum(): the   *)
(* first element whose pmf raises, or whose pmf is a bare float (which is  *)
(* not subscriptable), ends the call with that exception.                  *)
RECURSIVE outcomes_sum(_, _, _, _, _, _)
outcomes_sum(total_population, total_successes, draws, ks, i, acc) ==
    IF i > Len(ks) THEN acc
    ELSE LET r == hypergeometric_pmf(total_population, total_successes, draws, ks[i])
         IN IF r.type = "raise" THEN r
            ELSE IF r.type # "tuple" THEN Raise("TypeError")
            ELSE outcomes_sum(total_population, total_successes, draws, ks, i + 1,
                              PyAdd(acc, r.p_value))

hypergeometric_cdf(total_population, total_successes, draws, target_successes, inequality) ==
    LET max_successes == Min(draws, total_successes)
    IN IF inequality \notin Inequalities THEN Raise("ValueError")
       ELSE outcomes_sum(total_population, total_successes, draws,
                         k_values(inequality, target_successes, max_successes),
                         1, PyInt(0))

(* -------------------------- validate_distro --------------------------- *)
RECURSIVE Product(_)
Product(seq) == IF seq = <<>> THEN 1 ELSE Head(seq) * Product(Tail(seq))

RECURSIVE Sum(_)
Sum(seq) == IF seq = <<>> THEN 0 ELSE Head(seq) + Sum(Tail(seq))

Front(seq) == SubSeq(seq, 1, Len(seq) - 1)

(* variant: faces numbered from 0, range(0, d)                             *)
RECURSIVE rolls_zero_based(_)
rolls_zero_based(d) ==
    IF d = <<>> THEN {<<>>}
    ELSE {Append(r, f) : r \in rolls_zero_based(Front(d)), f \in 0..(d[Len(d)] - 1)}

(* The Cartesian product of range(1, d + 1) for d in dice: every tuple of  *)
(* faces.                                                                  *)
RECURSIVE rolls(_)
rolls(d) ==
    IF d = <<>> THEN {<<>>}
    ELSE {Append(r, f) : r \in rolls(Front(d)), f \in 1..d[Len(d)]}

(* Counter([sum(roll) for roll in rolls]) as a function sum -> count.      *)
Counter(d) ==
    LET rs == rolls(d)
    IN [s \in {Sum(r) : r \in rs} |-> Cardinality({r \in rs : Sum(r) = s})]

(* sorted_ascending is the variant without reverse=True.                   *)
(* the keys of a Counter in ascending / descending order                   *)
ascending(S) ==
    [i \in 1..Cardinality(S) |-> CHOOSE s \in S : Cardinality({x \in S : x <= s}) = i]

descending(S) ==
    [i \in 1..Cardinality(S) |-> CHOOSE s \in S : Cardinality({x \in S : x >= s}) = i]

sorted_ascending(counter) ==
    [i \in 1..Cardinality(DOMAIN counter) |->
        <<ascending(DOMAIN counter)[i], counter[ascending(DOMAIN counter)[i]]>>]

(* sorted(distro.items(), reverse=True): (sum, count) pairs, largest sum   *)
(* first.                                                                  *)
sorted_reverse(counter) ==
    [i \in 1..Cardinality(DOMAIN counter) |->
        <<descending(DOMAIN counter)[i], counter[descending(DOMAIN counter)[i]]>>]

(* cum_cases after the first i entries of distro                           *)
RECURSIVE cum_cases(_, _)
cum_cases(distro, i) == IF i = 0 THEN 0 ELSE distro[i][2] + cum_cases(distro, i - 1)

(* The scan loop from entry i on: the entry's sum when cum_cases equals    *)
(* target_cases, 0 when it has passed it; running off the end of the loop  *)
(* returns None.                                                           *)
RECURSIVE scan(_, _, _)
scan(distro, i, target_cases) ==
    IF i > Len(distro) THEN PyNone
    ELSE IF cum_cases(distro, i) = target_cases THEN PyInt(distro[i][1])
    ELSE IF cum_cases(distro, i) > target_cases THEN PyInt(0)
    ELSE scan(distro, i + 1, target_cases)

(* variant: the num_cases % denominator test left out                      *)
validate_distro_no_divisibility(numerator, denominator, d) ==
    LET num_cases == Product(d)
        target_cases == (numerator * num_cases) \div denominator
    IN scan(sorted_reverse(Counter(d)), 1, target_cases)

(* target_cases is numerator * num_cases / denominator, an exact integer   *)
(* once num_cases % denominator = 0 has been established.                  *)
validate_distro(numerator, denominator, d) ==
    LET num_cases == Product(d)
    IN IF num_cases % denominator # 0 THEN PyInt(0)
       ELSE LET target_cases == (numerator * num_cases) \div denominator
            IN scan(sorted_reverse(Counter(d)), 1, target_cases)

(* ------------------------------ find_dice ------------------------------ *)
(* itertools.combinations_with_replacement(pool, r): the r-tuples of pool  *)
(* entries taken at non-decreasing positions, in lexicographic order of    *)
(* the positions.  cwr_from lists those whose first position is >= start.  *)
RECURSIVE cwr_from(_, _, _)
cwr_from(pool, r, start) ==
    IF r = 0 THEN <<<<>>>>
    ELSE IF start > Len(pool) THEN <<>>
    ELSE LET rest == cwr_from(pool, r - 1, start)
         IN [j \in 1..Len(rest) |-> <<pool[start]>> \o rest[j]]
              \o cwr_from(pool, r, start + 1)

(* the r-tuples at strictly increasing positions (no entry taken twice)    *)
RECURSIVE combinations_from(_, _, _)
combinations_from(pool, r, start) ==
    IF r = 0 THEN <<<<>>>>
    ELSE IF start > Len(pool) THEN <<>>
    ELSE LET rest == combinations_from(pool, r - 1, start + 1)
         IN [j \in 1..Len(rest) |-> <<pool[start]>> \o rest[j]]
              \o combinations_from(pool, r, start + 1)

combinations(pool, r) == combinations_from(pool, r, 1)

combinations_with_replacement(pool, r) == cwr_from(pool, r, 1)

(* variants of the while condition: one size too many; solutions ignored   *)
while_cond_past_limit(n, limit, sols) == n <= limit + 1 /\ sols = <<>>

while_cond_ignores_solutions(n, limit, sols) == n <= limit

(* while N <= limit and not solutions                                      *)
while_cond(n, limit, sols) == n <= limit /\ sols = <<>>

(* --------------------------- input domains ----------------------------- *)
SeqsUpTo(S, n) == UNION {[1..m -> S] : m \in 0..n}

Faces == 1..MaxFace

Relations == Inequalities \cup {"other"}

(* ------------------------------ state ---------------------------------- *)
PmfArgs ==
    [total_population : 0..MaxPop, total_successes : 0..(MaxPop + 1),
     draws : 0..(MaxPop + 1), target_successes : (-1)..(MaxPop + 1)]

CdfArgs ==
    [total_population : 0..MaxPop, total_successes : 0..(MaxPop + 1),
     draws : 0..(MaxPop + 1), target_successes : (-1)..(MaxPop + 1),
     inequality : Relations]

ValidateArgs ==
    [numerator : 0..MaxNum, denominator : 1..MaxDen, dice : SeqsUpTo(Faces, MaxDice)]

(* p_value is passed along with its fraction; find_dice never reads it.    *)
FindDiceArgs ==
    {[p_value |-> PyFloat(a.numerator, a.denominator), numerator |-> a.numerator,
      denominator |-> a.denominator, dice_set |-> a.dice_set, limit |-> a.limit] :
        a \in [numerator : 0..MaxNum, denominator : 1..MaxDen,
               dice_set : SeqsUpTo(Faces, MaxSetLen), limit : 0..MaxLimit]}

(* One call of one of the four functions, with its arguments bound and     *)
(* nothing executed yet.                                                   *)
Init ==
    /\ \/ fn = "hypergeometric_pmf" /\ args \in PmfArgs
       \/ fn = "hypergeometric_cdf" /\ args \in CdfArgs
       \/ fn = "validate_distro" /\ args \in ValidateArgs
       \/ fn = "find_dice" /\ args \in FindDiceArgs
    /\ result = PyNone
    /\ pc = "call"
    /\ N = 0
    /\ solutions = <<>>
    /\ it = <<>>
    /\ dice = <<>>
    /\ threshold = PyNone

CallPmf ==
    /\ pc = "call"
    /\ fn = "hypergeometric_pmf"
    /\ result' = hypergeometric_pmf(args.total_population, args.total_successes,
                                    args.draws, args.target_successes)
    /\ pc' = "done"
    /\ UNCHANGED <<fn, args, N, solutions, it, dice, threshold>>

CallCdf ==
    /\ pc = "call"
    /\ fn = "hypergeometric_cdf"
    /\ result' = hypergeometric_cdf(args.total_population, args.total_successes,
                                    args.draws, args.target_successes, args.inequality)
    /\ pc' = "done"
    /\ UNCHANGED <<fn, args, N, solutions, it, dice, threshold>>

CallValidate ==
    /\ pc = "call"
    /\ fn = "validate_distro"
    /\ result' = validate_distro(args.numerator, args.denominator, args.dice)
    /\ pc' = "done"
    /\ UNCHANGED <<fn, args, N, solutions, it, dice, threshold>>

(* find_dice: N = 1; solutions = []                                        *)
FindDiceEnter ==
    /\ pc = "call"
    /\ fn = "find_dice"
    /\ N' = 1
    /\ solutions' = <<>>
    /\ pc' = "while"
    /\ UNCHANGED <<fn, args, result, it, dice, threshold>>

(* the while test: enter the for loop over the combinations of size N, or  *)
(* leave the loop                                                          *)
FindDiceWhile ==
    /\ pc = "while"
    /\ IF while_cond(N, args.limit, solutions)
       THEN /\ it' = combinations_with_replacement(args.dice_set, N)
            /\ pc' = "for"
       ELSE /\ pc' = "return"
            /\ it' = it
    /\ UNCHANGED <<fn, args, result, N, solutions, dice, threshold>>

(* one iteration of the for loop                                           *)
FindDiceFor ==
    /\ pc = "for"
    /\ it # <<>>
    /\ LET t == validate_distro(args.numerator, args.denominator, Head(it))
       IN /\ dice' = Head(it)
          /\ threshold' = t
          /\ solutions' = IF Truthy(t) THEN Append(solutions, <<Head(it), t.val>>)
                          ELSE solutions
    /\ it' = Tail(it)
    /\ UNCHANGED <<fn, args, result, pc, N>>

(* the for loop is exhausted: N += 1                                       *)
FindDiceForEnd ==
    /\ pc = "for"
    /\ it = <<>>
    /\ N' = N + 1
    /\ pc' = "while"
    /\ UNCHANGED <<fn, args, result, solutions, it, dice, threshold>>

FindDiceReturn ==
    /\ pc = "return"
    /\ result' = [type |-> "list", items |-> solutions]
    /\ pc' = "done"
    /\ UNCHANGED <<fn, args, N, solutions, it, dice, threshold>>

FindDiceStep == FindDiceEnter \/ FindDiceWhile \/ FindDiceFor \/ FindDiceForEnd \/ FindDiceReturn

Next ==
    \/ CallPmf
    \/ CallCdf
    \/ CallValidate
    \/ FindDiceEnter
    \/ FindDiceWhile
    \/ FindDiceFor
    \/ FindDiceForEnd
    \/ FindDiceReturn

Spec == Init /\ [][Next]_vars

(* ======================= properties of the program ===================== *)
Elements(seq) == {seq[i] : i \in 1..Len(seq)}

RealDice(d) == \A i \in 1..Len(d) : d[i] >= 2

NonDecreasing(p) == \A i \in 1..(Len(p) - 1) : p[i] <= p[i + 1]

StrictlyAscending(p) == \A i \in 1..(Len(p) - 1) : p[i] < p[i + 1]

LexLeq(p, q) ==
    \/ p = q
    \/ \E i \in 1..Len(p) : p[i] < q[i] /\ \A j \in 1..(i - 1) : p[j] = q[j]

RECURSIVE SortLex(_)
SortLex(S) ==
    IF S = {} THEN <<>>
    ELSE LET m == CHOOSE x \in S : \A y \in S : LexLeq(x, y)
         IN <<m>> \o SortLex(S \ {m})

Returned(f) == fn = f /\ pc = "done"

FindDiceDone == Returned("find_dice")

Threshold(sel) == validate_distro(args.numerator, args.denominator, sel)

(* some selection of m entries of the allowed dice has a non-zero threshold *)
SizeSucceeds(m) == \E sel \in [1..m -> Elements(args.dice_set)] : Truthy(Threshold(sel))

(* the (dice, threshold) pairs of the selections in sels that have a       *)
(* non-zero threshold, in the order of sels                                *)
Solved(sels) ==
    LET hits == SelectSeq(sels, LAMBDA sel : Truthy(Threshold(sel)))
    IN [i \in 1..Len(hits) |-> <<hits[i], Threshold(hits[i]).val>>]

(* selections of n face sizes of the allowed set, non-decreasing, in       *)
(* ascending lexicographic order of face sizes                             *)
AscendingSelections(n) ==
    SortLex({p \in [1..n -> Elements(args.dice_set)] : NonDecreasing(p)})

(* selections of n entries of dice_set at non-decreasing positions, in     *)
(* lexicographic order of the positions                                    *)
PositionalSelections(n) ==
    LET ps == SortLex({p \in [1..n -> 1..Len(args.dice_set)] : NonDecreasing(p)})
    IN [k \in 1..Len(ps) |-> [i \in 1..n |-> args.dice_set[ps[k][i]]]]

MinimalSize == CHOOSE m \in 1..args.limit :
                   SizeSucceeds(m) /\ \A l \in 1..(m - 1) : ~SizeSucceeds(l)

(* C1: every combination find_dice returns has one common length, and no   *)
(* selection of a smaller size (>= 1) from the allowed dice has a non-zero *)
(* threshold for the target.                                               *)
C1_CommonMinimalSize ==
    (FindDiceDone /\ result.items # <<>>) =>
        LET size == Len(result.items[1][1])
        IN /\ \A i \in 1..Len(result.items) : Len(result.items[i][1]) = size
           /\ \A m \in 1..(size - 1) : ~SizeSucceeds(m)

C1_Witness ==
    /\ FindDiceDone
    /\ Len(result.items) >= 2
    /\ Len(result.items[1][1]) >= 2
    /\ Len(args.dice_set) >= 2

(* C2 as stated, for allowed dice of distinct sizes >= 2: when some size   *)
(* up to limit succeeds, the returned list is the non-decreasing           *)
(* selections of the minimal size with a non-zero threshold, each once,    *)
(* with its threshold, in ascending lexicographic order of face sizes.     *)
C2_AscendingFaceOrder ==
    (/\ FindDiceDone
     /\ RealDice(args.dice_set)
     /\ Cardinality(Elements(args.dice_set)) = Len(args.dice_set)
     /\ \E m \in 1..args.limit : SizeSucceeds(m)) =>
        result.items = Solved(AscendingSelections(MinimalSize))

(* C2 amended: the returned list is the selections of the minimal size     *)
(* taken at non-decreasing positions of the dice_set sequence that have a  *)
(* non-zero threshold, each position selection once, with its threshold,   *)
(* in lexicographic order of positions; when dice_set lists its sizes in   *)
(* strictly ascending order this is the list C2 states.                    *)
C2_PositionalOrder ==
    (FindDiceDone /\ \E m \in 1..args.limit : SizeSucceeds(m)) =>
        /\ result.items = Solved(PositionalSelections(MinimalSize))
        /\ StrictlyAscending(args.dice_set) =>
               result.items = Solved(AscendingSelections(MinimalSize))

C2_Witness ==
    /\ FindDiceDone
    /\ StrictlyAscending(args.dice_set)
    /\ RealDice(args.dice_set)
    /\ Len(args.dice_set) >= 2
    /\ Len(result.items) >= 2
    /\ result.items[1][1] # result.items[2][1]

RollsAtLeast(d, t) == Cardinality({r \in rolls(d) : Sum(r) >= t})

(* C3: a non-zero threshold t returned for a non-empty combination lies in *)
(* [number of dice, sum of face counts], and the number of rolls with sum  *)
(* >= t times denominator equals numerator times the number of rolls.      *)
C3_ThresholdExact ==
    (Returned("validate_distro") /\ Truthy(result) /\ args.dice # <<>>) =>
        /\ result.val \in Len(args.dice)..Sum(args.dice)
        /\ RollsAtLeast(args.dice, result.val) * args.denominator
             = args.numerator * Product(args.dice)

C3_Witness ==
    /\ Returned("validate_distro")
    /\ Truthy(result)
    /\ Len(args.dice) >= 2
    /\ result.val > Len(args.dice)
    /\ result.val < Sum(args.dice)
    /\ RealDice(args.dice)

SplitExists(numerator, denominator, d) ==
    \E t \in Len(d)..Sum(d) :
        RollsAtLeast(d, t) * denominator = numerator * Product(d)

(* C4: for a reduced fraction (numerator >= 0, denominator >= 1) and a     *)
(* non-empty combination of dice with at least two faces each,             *)
(* validate_distro returns the integer 0 exactly when no sum in the        *)
(* achievable range splits the rolls in the target proportion, and never   *)
(* signals "not found" by anything but the integer 0.                      *)
C4_NotFoundIsZero ==
    (/\ Returned("validate_distro")
     /\ gcd(args.numerator, args.denominator) = 1
     /\ args.dice # <<>>
     /\ RealDice(args.dice)) =>
        /\ result.type = "int"
        /\ (result = PyInt(0)) <=> ~SplitExists(args.numerator, args.denominator, args.dice)

(* C5: validate_distro returns 0 whenever the product of the face counts   *)
(* is not divisible by denominator.                                        *)
C5_IndivisibleIsZero ==
    (Returned("validate_distro") /\ Product(args.dice) % args.denominator # 0) =>
        result = PyInt(0)

C5_Witness ==
    /\ Returned("validate_distro")
    /\ Len(args.dice) >= 2
    /\ RealDice(args.dice)
    /\ args.numerator >= 1
    /\ Product(args.dice) % args.denominator # 0
    /\ result = PyInt(0)

(* find_dice's progress measure: sizes still to try, then the position in  *)
(* the loop body, then the combinations of the current size still to try.  *)
Rank == CASE pc = "call" -> 4
          [] pc = "while" -> 3
          [] pc = "for" -> 2
          [] pc = "return" -> 1
          [] OTHER -> 0

Measure == <<args.limit + 2 - N, Rank, Len(it)>>

LexLess3(a, b) ==
    \/ a[1] < b[1]
    \/ a[1] = b[1] /\ a[2] < b[2]
    \/ a[1] = b[1] /\ a[2] = b[2] /\ a[3] < b[3]

(* C6: find_dice terminates: until it has returned it can always take a    *)
(* step (one of the loop-control steps is enabled, or the for loop has a   *)
(* combination left, which is all its body needs), and every step lowers a *)
(* measure that is bounded below.  It takes                                *)
(* the sizes 1, 2, ... in increasing order, never evaluates a combination  *)
(* longer than limit, and returns the empty list (not an error) when no    *)
(* size in 1..limit succeeds.                                              *)
C6_BoundedSearchTerminates ==
    /\ []((fn = "find_dice" /\ pc # "done") =>
             \/ ENABLED (FindDiceEnter \/ FindDiceWhile \/ FindDiceForEnd \/ FindDiceReturn)
             \/ pc = "for" /\ it # <<>>)
    /\ [](fn = "find_dice" => \A i \in 1..3 : Measure[i] >= 0)
    /\ [][fn = "find_dice" => LexLess3(Measure', Measure)]_vars
    /\ [][fn = "find_dice" => N' \in {N, N + 1}]_vars
    /\ []((fn = "find_dice" /\ pc # "call") => N >= 1)
    /\ [][dice' # dice => Len(dice') = N /\ N <= args.limit]_vars
    /\ []((fn = "find_dice" /\ dice # <<>>) => Len(dice) <= args.limit)
    /\ []((FindDiceDone /\ ~\E m \in 1..args.limit : SizeSucceeds(m)) =>
             result = [type |-> "list", items |-> <<>>])

C6_Witness ==
    /\ FindDiceDone
    /\ result.items = <<>>
    /\ args.limit >= 2
    /\ args.dice_set # <<>>
    /\ N = args.limit + 1
    /\ Len(dice) = args.limit

ValidParameters ==
    /\ args.total_successes <= args.total_population
    /\ args.draws <= args.total_population
    /\ args.total_population >= 1

OutOfRange(k) == k < 0 \/ k > args.draws \/ k > args.total_successes

IsProbabilityZero(v) ==
    \/ v = FloatZero
    \/ v.type = "tuple" /\ v.p_value = FloatZero
    \/ v = PyInt(0)

(* C7: with valid (population, successes, draws) a target that is          *)
(* negative, exceeds draws or exceeds successes is no error: pmf returns   *)
(* probability 0, and cdf over a k set that contains such a value          *)
(* completes, counting that value as probability 0.                        *)
C7_OutOfRangeNotAnError ==
    /\ (Returned("hypergeometric_pmf") /\ ValidParameters
          /\ OutOfRange(args.target_successes)) => IsProbabilityZero(result)
    /\ (Returned("hypergeometric_cdf") /\ ValidParameters
          /\ args.inequality \in Inequalities
          /\ \E k \in Elements(k_values(args.inequality, args.target_successes,
                                        Min(args.draws, args.total_successes))) :
                 OutOfRange(k)) => result.type # "raise"

(* C8: pmf raises the invalid-parameters error whenever successes >        *)
(* population, draws > population or population < 1, whatever the target   *)
(* (also an out-of-range one), and returns no probability then.            *)
C8_InvalidParametersFirst ==
    (Returned("hypergeometric_pmf") /\ ~ValidParameters) => result = Raise("ValueError")

C8_Witness ==
    /\ Returned("hypergeometric_pmf")
    /\ ~ValidParameters
    /\ OutOfRange(args.target_successes)
    /\ result = Raise("ValueError")

RECURSIVE SumFn(_)
SumFn(f) ==
    IF DOMAIN f = {} THEN 0
    ELSE LET x == CHOOSE y \in DOMAIN f : TRUE
         IN f[x] + SumFn([y \in DOMAIN f \ {x} |-> f[y]])

Ways(k) == comb(args.total_successes, k)
             * comb(args.total_population - args.total_successes, args.draws - k)

(* |v - 1| of a double v in units of 2^-53 (half the spacing of doubles    *)
(* at 1), exact below 2^8 and capped there                                 *)
HalfUlpsFromOne(v) ==
    LET split == MantissaBits - 8
        low == BitsValue(v.man, split + 1, MantissaBits)
    IN IF v.man # <<>> /\ v.exp = 0 /\ \A i \in 2..split : v.man[i] = 0
       THEN Min(2 * low, Pow2(8))
       ELSE IF v.man # <<>> /\ v.exp = -1 /\ \A i \in 1..split : v.man[i] = 1
       THEN Pow2(8) - low
       ELSE Pow2(8)

LteGtCase ==
    /\ Returned("hypergeometric_cdf")
    /\ args.inequality = "lte"
    /\ ValidParameters
    /\ args.target_successes \in 0..Min(args.draws, args.total_successes)

(* lte + gt as the interpreter adds the two returned values                *)
LtePlusGt ==
    PyAdd(result, hypergeometric_cdf(args.total_population, args.total_successes,
                                     args.draws, args.target_successes, "gt"))

(* the k sets of lte and gt are disjoint, cover [0, min(draws, successes)] *)
(* and the pmf counts over that range sum to C(population, draws)          *)
LteGtPartition ==
    LET max_successes == Min(args.draws, args.total_successes)
        lte == Elements(k_values("lte", args.target_successes, max_successes))
        gt == Elements(k_values("gt", args.target_successes, max_successes))
    IN /\ lte \cap gt = {}
       /\ lte \cup gt = 0..max_successes
       /\ SumFn([k \in 0..max_successes |-> Ways(k)]) = comb(args.total_population, args.draws)

(* C9 as stated: for valid parameters and k in [0, min(draws, successes)], *)
(* cdf "lte" plus cdf "gt" equals 1.0: the two k sets are disjoint,        *)
(* together they are exactly [0, min(draws, successes)], and the pmf       *)
(* counts over that range sum to C(population, draws).                     *)
C9_LtePlusGtIsOne ==
    LteGtCase => /\ LteGtPartition
                 /\ result.type = "float"
                 /\ LtePlusGt = PyFloat(1, 1)

(* C9 amended: for valid parameters and k in [0, min(draws, successes)],   *)
(* the k sets of lte and gt are disjoint and cover exactly                 *)
(* [0, min(draws, successes)], the pmf counts over that range sum to       *)
(* C(population, draws), and cdf "lte" plus cdf "gt" is a float within     *)
(* (min(draws, successes) + 2) * 2^-53 of 1, not always 1.0 itself.        *)
C9_LtePlusGtNearOne ==
    LteGtCase => /\ LteGtPartition
                 /\ result.type = "float"
                 /\ HalfUlpsFromOne(LtePlusGt) <= Min(args.draws, args.total_successes) + 2

(* a call whose lte and gt parts are both non-empty sums and whose total   *)
(* is the double just below 1.0                                            *)
C9_Witness ==
    /\ LteGtCase
    /\ args.target_successes < Min(args.draws, args.total_successes)
    /\ result.type = "float"
    /\ result # FloatZero
    /\ HalfUlpsFromOne(result) > 1
    /\ HalfUlpsFromOne(LtePlusGt) = 1

(* C10: for a combination of N >= 1 dice the enumerated sum -> count       *)
(* distribution has counts that sum to the product of the face counts,     *)
(* keys within [N, sum of face counts] and strictly positive counts; in    *)
(* the descending scan order the sums strictly decrease.                   *)
C10_DistributionShape ==
    (Returned("validate_distro") /\ Len(args.dice) >= 1) =>
        LET counter == Counter(args.dice)
            distro == sorted_reverse(Counter(args.dice))
        IN /\ SumFn(counter) = Product(args.dice)
           /\ DOMAIN counter \subseteq Len(args.dice)..Sum(args.dice)
           /\ \A s \in DOMAIN counter : counter[s] > 0
           /\ Len(distro) = Cardinality(DOMAIN counter)
           /\ \A i \in 1..Len(distro) :
                 /\ distro[i][2] = counter[distro[i][1]]
                 /\ i > 1 => distro[i][1] < distro[i - 1][1]

C10_Witness ==
    /\ Returned("validate_distro")
    /\ Len(args.dice) >= 2
    /\ Product(args.dice) % args.denominator = 0
    /\ RealDice(args.dice)
    /\ Cardinality(DOMAIN Counter(args.dice)) >= 4
    /\ Truthy(result)

====
